---- MODULE Spec2Model ----
(***************************************************************************)
(* A model of omero_napari.py: the lazy / eager plane loading of an OMERO  *)
(* image into a napari viewer (get_data, get_data_lazy and its get_plane   *)
(* closure over the module-level plane_cache), the viewer dimension setup  *)
(* (set_dims_defaults, set_dims_labels) and the export of napari points    *)
(* and shapes as OMERO ROIs (save_rois, create_omero_point,                *)
(* create_omero_shape, create_roi).                                        *)
(***************************************************************************)
EXTENDS Integers, Sequences, FiniteSets, TLC

VARIABLES
  image,        \* the OMERO images of the server: id -> extents and defaults
  layers,       \* viewer.layers, in the order they were added
  axis_labels,  \* viewer.dims axis labels set so far: axis index -> label
  dims_point,   \* viewer.dims slider positions set so far: axis index -> index
  plane_cache,  \* the module-level dict plane_cache: plane_name -> array
  task,         \* per dask worker: the get_plane call it is running
  reads,        \* remote plane reads issued so far: <<img, z, c, t>> -> count
  save,         \* the save_rois call: where its loops stand
  rois,         \* the ROIs the server holds, in the order it created them
  calls         \* the create calls issued so far: <<layer index, item index>>

vars == <<image, layers, axis_labels, dims_point, plane_cache, task, reads,
          save, rois, calls>>

saveVars == <<save, rois, calls>>

-----------------------------------------------------------------------------
(* Bounds of the model. *)

\* Largest extents of an image in the loading specification.
MaxT == 2
MaxZ == 5
MaxC == 2
\* Largest Z extent of an image in the plane-cache specifications.
CacheMaxZ == 2
\* Number of load_omero_image calls in one process.
MaxLoads == 2

\* The ids of the images on the server, and the dask worker threads.
ImageIds == {101, 102}
Workers == {"w1", "w2"}

-----------------------------------------------------------------------------
(* Python helpers: str, int, split and item access with negative indices. *)

Digits == <<"0", "1", "2", "3", "4", "5", "6", "7", "8", "9">>

\* "%s" % n for a non-negative int: its decimal digits, as a sequence of characters.
RECURSIVE str(_)
str(n) ==
  IF n < 10 THEN <<Digits[n + 1]>>
  ELSE str(n \div 10) \o <<Digits[(n % 10) + 1]>>

DigitVal(ch) == CHOOSE d \in 0..9 : Digits[d + 1] = ch

\* int(s) for a string of decimal digits.
RECURSIVE int_of_str(_)
int_of_str(s) ==
  IF Len(s) = 1 THEN DigitVal(s[1])
  ELSE 10 * int_of_str(SubSeq(s, 1, Len(s) - 1)) + DigitVal(s[Len(s)])

\* s.split(sep): the pieces of s between the occurrences of the character sep.
RECURSIVE split(_, _)
split(s, sep) ==
  IF \A i \in 1..Len(s) : s[i] # sep THEN <<s>>
  ELSE LET i == CHOOSE i \in 1..Len(s) :
                  s[i] = sep /\ \A j \in 1..(i - 1) : s[j] # sep
       IN <<SubSeq(s, 1, i - 1)>> \o split(SubSeq(s, i + 1, Len(s)), sep)

\* A dict, as a function on the keys set so far.
DictSet(d, k, v) == [x \in DOMAIN d \cup {k} |-> IF x = k THEN v ELSE d[x]]
DictGet(d, k, default) == IF k \in DOMAIN d THEN d[k] ELSE default

-----------------------------------------------------------------------------
(* The server side: images and their planes. *)

\* The images an Init may draw: extents at least 1, defaults inside the extents.
ImageChoices(maxT, maxZ, maxC) ==
  { [sizeT |-> st, sizeZ |-> sz, sizeC |-> sc, defaultT |-> dt, defaultZ |-> dz,
     sizeY |-> 2, sizeX |-> 3] :
      <<st, sz, sc, dt, dz>> \in
        { q \in (1..maxT) \X (1..maxZ) \X (1..maxC) \X (0..(maxT - 1)) \X (0..(maxZ - 1)) :
            q[4] < q[1] /\ q[5] < q[2] } }

\* The pixel data the server holds for plane (z, c, t) of image img.
Pixels(img, z, c, t) == [img |-> img, z |-> z, c |-> c, t |-> t]

\* pixels.getPlane(z, c, t): a new array holding that plane; id tells the
\* array instances of one plane apart (the n-th read of it).
getPlane(img, z, c, t, n) ==
  [shape |-> <<image[img].sizeY, image[img].sizeX>>,
   pix |-> Pixels(img, z, c, t), id |-> n]

\* pixels.getPlanes(zct_list): the planes of the list, in the list's order.
getPlanes(img, zct_list) ==
  [i \in 1..Len(zct_list) |->
     getPlane(img, zct_list[i][1], zct_list[i][2], zct_list[i][3], 0)]

ReadCount(k) == DictGet(reads, k, 0)

-----------------------------------------------------------------------------
(* get_data: the eager assembly. *)

\* numpy.array(list of arrays), da.stack(list of arrays): a new leading axis
\* as long as the list, before the axes of the list's arrays.
np_array(list) == [shape |-> <<Len(list)>> \o list[1].shape, items |-> list]

\* [(z, c, t) for t in range(size_t) for z in range(size_z)]
zct_list(size_z, size_t, c) ==
  [i \in 1..(size_t * size_z) |-> <<(i - 1) % size_z, c, (i - 1) \div size_z>>]

\* The inner loop: size_z times z_stack.append(next(plane_gen)).
RECURSIVE z_loop(_, _, _)
z_loop(n, plane_gen, z_stack) ==
  IF n = 0 THEN [z_stack |-> z_stack, plane_gen |-> plane_gen]
  ELSE z_loop(n - 1, Tail(plane_gen), Append(z_stack, Head(plane_gen)))

\* The outer loop: size_t times t_stacks.append(numpy.array(z_stack)).
RECURSIVE t_loop(_, _, _, _)
t_loop(n, size_z, plane_gen, t_stacks) ==
  IF n = 0 THEN t_stacks
  ELSE LET r == z_loop(size_z, plane_gen, <<>>)
       IN t_loop(n - 1, size_z, r.plane_gen,
                 Append(t_stacks, np_array(r.z_stack)))

\* get_data with the axes of extent 1 dropped from the result.
get_data_squeezed(img, c) ==
  LET size_z == image[img].sizeZ
      size_t == image[img].sizeT
      t_stacks == t_loop(size_t, size_z,
                         getPlanes(img, zct_list(size_z, size_t, c)), <<>>)
  IN IF size_t = 1 THEN t_stacks[1] ELSE np_array(t_stacks)

get_data(img, c) ==
  LET size_z == image[img].sizeZ
      size_t == image[img].sizeT
  IN np_array(t_loop(size_t, size_z,
                     getPlanes(img, zct_list(size_z, size_t, c)), <<>>))

-----------------------------------------------------------------------------
(* get_data_lazy: the lazy assembly, and the name of a plane. *)

\* "%s,%s,%s" % (z, c, t)
format_plane_name(z, c, t) == str(z) \o <<",">> \o str(c) \o <<",">> \o str(t)

\* The unpacking of the name's pieces in the order t, c, z.
parse_plane_name_zt(plane_name) ==
  LET n == split(plane_name, ",")
  IN [z |-> int_of_str(n[3]), c |-> int_of_str(n[2]), t |-> int_of_str(n[1])]

\* z, c, t = [int(n) for n in plane_name.split(",")]
parse_plane_name(plane_name) ==
  LET n == split(plane_name, ",")
  IN [z |-> int_of_str(n[1]), c |-> int_of_str(n[2]), t |-> int_of_str(n[3])]

\* da.from_delayed(lazy_reader(plane_name), shape=plane_shape, ...): the
\* delayed call get_plane(plane_name), which nothing has executed yet.
from_delayed(plane_name, plane_shape) ==
  [shape |-> plane_shape, plane_name |-> plane_name]

\* get_data_lazy with the plane named "t,c,z".
get_data_lazy_tz(img, c) ==
  LET plane_shape == <<image[img].sizeY, image[img].sizeX>>
  IN np_array([t \in 1..image[img].sizeT |->
       np_array([z \in 1..image[img].sizeZ |->
         from_delayed(format_plane_name(t - 1, c, z - 1), plane_shape)])])

\* The two loops of get_data_lazy: element [t][z] is the lazy plane named
\* "z,c,t".
get_data_lazy(img, c) ==
  LET plane_shape == <<image[img].sizeY, image[img].sizeX>>
  IN np_array([t \in 1..image[img].sizeT |->
       np_array([z \in 1..image[img].sizeZ |->
         from_delayed(format_plane_name(z - 1, c, t - 1), plane_shape)])])

-----------------------------------------------------------------------------
(* load_omero_image, for the eager and the lazy loading of the planes; the *)
(* loading of a remote zarr pyramid (args.zarr) is not modelled.           *)

\* The planes get_data reads: every plane of the channel, once.
eager_reads(rd, img, c) ==
  [k \in DOMAIN rd \cup
         { <<img, z, c, t>> : z \in 0..(image[img].sizeZ - 1),
                              t \in 0..(image[img].sizeT - 1) } |->
     IF k[1] = img /\ k[3] = c THEN DictGet(rd, k, 0) + 1 ELSE DictGet(rd, k, 0)]

\* load_omero_channel: one viewer layer for the channel's data.
load_omero_channel(img, c_index, data, lazy) ==
  [type |-> "image", img |-> img, c |-> c_index, data |-> data, lazy |-> lazy,
   blending |-> "additive"]

\* The for loop over the channels: one layer per channel.
channel_layers(img, eager) ==
  [i \in 1..image[img].sizeC |->
     load_omero_channel(img, i - 1,
                        IF eager THEN get_data(img, i - 1)
                        ELSE get_data_lazy(img, i - 1), ~eager)]

RECURSIVE channel_reads(_, _, _)
channel_reads(rd, img, n) ==
  IF n = 0 THEN rd ELSE channel_reads(eager_reads(rd, img, n - 1), img, n - 1)

\* set_dims_defaults: a slider position for the axes of extent above 1.
set_dims_defaults(point, img) ==
  LET p0 == IF image[img].sizeT > 1
            THEN DictSet(point, 0, image[img].defaultT) ELSE point
  IN IF image[img].sizeZ > 1 THEN DictSet(p0, 1, image[img].defaultZ) ELSE p0

\* set_dims_labels with a label only for the axes of extent above 1.
set_dims_labels_sized(labels, img) ==
  LET dims == (IF image[img].sizeT > 1 THEN <<"T">> ELSE <<>>)
              \o (IF image[img].sizeZ > 1 THEN <<"Z">> ELSE <<>>)
  IN [i \in DOMAIN labels \cup { j - 1 : j \in 1..Len(dims) } |->
        IF i + 1 \in 1..Len(dims) THEN dims[i + 1] ELSE labels[i]]

\* set_dims_labels: for idx, label in enumerate('TZ'): set_axis_label(idx, label)
set_dims_labels(labels, img) ==
  LET dims == <<"T", "Z">>
  IN [i \in DOMAIN labels \cup { j - 1 : j \in 1..Len(dims) } |->
        IF i + 1 \in 1..Len(dims) THEN dims[i + 1] ELSE labels[i]]

NumLoads ==
  Cardinality({ i \in 1..Len(layers) : layers[i].type = "image" /\ layers[i].c = 0 })

load_omero_image(img, eager) ==
  /\ NumLoads < MaxLoads
  /\ layers' = layers \o channel_layers(img, eager)
  /\ reads' = IF eager THEN channel_reads(reads, img, image[img].sizeC) ELSE reads
  /\ dims_point' = set_dims_defaults(dims_point, img)
  /\ axis_labels' = set_dims_labels(axis_labels, img)
  /\ UNCHANGED <<image, plane_cache, task, saveVars>>

-----------------------------------------------------------------------------
(* get_plane, as dask runs it: one call per worker, step by step. *)

Idle == [pc |-> "idle"]

\* The viewer asks for element [t][z] of a lazy layer: dask hands the
\* delayed call to a free worker. want records the coordinate of the element
\* asked for; get_plane itself only sees plane_name.
StartTask(w, li, t, z) ==
  /\ task[w].pc \in {"idle", "done"}
  /\ layers[li].type = "image" /\ layers[li].lazy
  /\ task' = [task EXCEPT ![w] =
       [pc |-> "check", img |-> layers[li].img,
        want |-> <<z, layers[li].c, t>>,
        plane_name |-> layers[li].data.items[t + 1].items[z + 1].plane_name]]
  /\ UNCHANGED <<image, layers, axis_labels, dims_point, plane_cache, reads, saveVars>>

\* if plane_name in plane_cache:
Check(w) ==
  /\ task[w].pc = "check"
  /\ task' = [task EXCEPT ![w].pc =
       IF task[w].plane_name \in DOMAIN plane_cache THEN "hit" ELSE "read"]
  /\ UNCHANGED <<image, layers, axis_labels, dims_point, plane_cache, reads, saveVars>>

\* return plane_cache[plane_name]
Hit(w) ==
  /\ task[w].pc = "hit"
  /\ task' = [task EXCEPT ![w] =
       [pc |-> "done", img |-> task[w].img, want |-> task[w].want,
        plane_name |-> task[w].plane_name,
        p |-> plane_cache[task[w].plane_name], hit |-> TRUE]]
  /\ UNCHANGED <<image, layers, axis_labels, dims_point, plane_cache, reads, saveVars>>

\* z, c, t = ...; pixels = img.getPrimaryPixels(); p = pixels.getPlane(z, c, t)
Read(w) ==
  /\ task[w].pc = "read"
  /\ LET zct == parse_plane_name(task[w].plane_name)
         k == <<task[w].img, zct.z, zct.c, zct.t>>
     IN /\ reads' = DictSet(reads, k, ReadCount(k) + 1)
        /\ task' = [task EXCEPT ![w] =
             [pc |-> "store", img |-> task[w].img, want |-> task[w].want,
              plane_name |-> task[w].plane_name,
              p |-> getPlane(task[w].img, zct.z, zct.c, zct.t, ReadCount(k) + 1)]]
  /\ UNCHANGED <<image, layers, axis_labels, dims_point, plane_cache, saveVars>>

\* The return of p without the insert into plane_cache.
Store_forget(w) ==
  /\ task[w].pc = "store"
  /\ task' = [task EXCEPT ![w] =
       [pc |-> "done", img |-> task[w].img, want |-> task[w].want,
        plane_name |-> task[w].plane_name, p |-> task[w].p, hit |-> FALSE]]
  /\ UNCHANGED <<image, layers, axis_labels, dims_point, plane_cache, reads, saveVars>>

\* plane_cache[plane_name] = p; return p
Store(w) ==
  /\ task[w].pc = "store"
  /\ plane_cache' = DictSet(plane_cache, task[w].plane_name, task[w].p)
  /\ task' = [task EXCEPT ![w] =
       [pc |-> "done", img |-> task[w].img, want |-> task[w].want,
        plane_name |-> task[w].plane_name, p |-> task[w].p, hit |-> FALSE]]
  /\ UNCHANGED <<image, layers, axis_labels, dims_point, reads, saveVars>>

-----------------------------------------------------------------------------
(* The specifications. *)

ViewerInit ==
  /\ layers = <<>>
  /\ axis_labels = <<>>
  /\ dims_point = <<>>
  /\ plane_cache = <<>>
  /\ task = [w \in Workers |-> Idle]
  /\ reads = <<>>
  /\ save = [pc |-> "idle"]
  /\ rois = <<>>
  /\ calls = <<>>

\* Loading one image, eagerly or lazily.
InitLoad ==
  /\ \E i \in ImageIds : image \in [{i} -> ImageChoices(MaxT, MaxZ, MaxC)]
  /\ ViewerInit

Load == \E img \in DOMAIN image, eager \in BOOLEAN : load_omero_image(img, eager)

SpecLoad == InitLoad /\ [][Load]_vars

\* Lazy loads of the images, and the plane fetches the viewer then asks for.
CacheImages ==
  { im \in ImageChoices(1, CacheMaxZ, 1) : im.defaultZ = 0 }

\* A process that loads one image.
InitCache ==
  /\ \E i \in ImageIds : image \in [{i} -> CacheImages]
  /\ ViewerInit

\* A process that loads several images.
InitSeq ==
  /\ image \in [ImageIds -> CacheImages]
  /\ ViewerInit

LoadLazy ==
  \E img \in DOMAIN image :
    /\ \A i \in 1..Len(layers) : layers[i].img # img
    /\ load_omero_image(img, FALSE)

Start ==
  \E w \in Workers, li \in 1..Len(layers) :
    \E t \in 0..(image[layers[li].img].sizeT - 1),
       z \in 0..(image[layers[li].img].sizeZ - 1) : StartTask(w, li, t, z)

\* A fetch starts only when no other fetch is running.
StartSeq ==
  /\ \A w \in Workers : task[w].pc \in {"idle", "done"}
  /\ Start

Step == \E w \in Workers : Check(w) \/ Hit(w) \/ Read(w) \/ Store(w)

Next == LoadLazy \/ Start \/ Step
Spec == InitCache /\ [][Next]_vars

NextSeq == LoadLazy \/ StartSeq \/ Step
SpecSeq == InitSeq /\ [][NextSeq]_vars

-----------------------------------------------------------------------------
(* Properties of the plane cache and of the lazy assembly. *)

ImageLayers == { i \in 1..Len(layers) : layers[i].type = "image" }
ImagesLoaded == { layers[i].img : i \in ImageLayers }
Done(w) == task[w].pc = "done"

RECURSIVE SumReads(_)
SumReads(K) ==
  IF K = {} THEN 0
  ELSE LET k == CHOOSE x \in K : TRUE IN reads[k] + SumReads(K \ {k})

\* The reads issued for coordinate zct, whatever the image.
TotalReads(zct) == SumReads({ k \in DOMAIN reads : <<k[2], k[3], k[4]>> = zct })

C2_Step ==
  /\ layers' # layers => reads' = reads
  /\ reads' # reads =>
       \E w \in Workers :
         /\ task[w].pc = "read" /\ task'[w].pc = "store"
         /\ LET k == <<task[w].img>> \o task[w].want
            IN reads' = DictSet(reads, k, ReadCount(k) + 1)

\* C2: a load that builds lazy arrays issues no remote read; a step that
\* issues a remote read is the read of a get_plane call that the viewer
\* started for an element of a lazy array, and it reads the plane of that
\* element's coordinate, once, and no other plane.
C2_LazyDefersReads == [][C2_Step]_vars

\* A lazy array of two planes is built, plane z=1 has been read and plane
\* z=0 has not.
C2_Witness ==
  \E i \in ImageLayers :
    /\ layers[i].lazy /\ image[layers[i].img].sizeZ >= 2
    /\ ReadCount(<<layers[i].img, 1, layers[i].c, 0>>) = 1
    /\ ReadCount(<<layers[i].img, 0, layers[i].c, 0>>) = 0

\* Every returned array and every cache entry holds the plane of its
\* coordinate.
C9_State ==
  /\ \A w \in Workers :
       Done(w) => task[w].p.pix = Pixels(task[w].img, task[w].want[1],
                                         task[w].want[2], task[w].want[3])
  /\ \A name \in DOMAIN plane_cache :
       \E i \in DOMAIN image :
         \E z \in 0..(image[i].sizeZ - 1), c \in 0..(image[i].sizeC - 1),
            t \in 0..(image[i].sizeT - 1) :
           /\ name = format_plane_name(z, c, t)
           /\ plane_cache[name].pix = Pixels(i, z, c, t)

\* No entry leaves the cache; an entry that is new or changed is the one
\* under the name of a call that takes its store step, and holds its array.
C9_Step ==
  /\ DOMAIN plane_cache \subseteq DOMAIN plane_cache'
  /\ \A name \in DOMAIN plane_cache' :
       (name \notin DOMAIN plane_cache \/ plane_cache'[name] # plane_cache[name]) =>
         \E w \in Workers :
           /\ task[w].pc = "store" /\ task'[w].pc = "done"
           /\ task[w].plane_name = name
           /\ plane_cache'[name] = task[w].p

\* C9: with get_plane calls interleaved in a process that has loaded one
\* image, every call returns the pixel data of the plane it was started for,
\* every cache entry under the name of (z, c, t) holds the data of plane
\* (z, c, t), and a step changes at most the cache entry under the name of
\* the call that takes the step, to the array that call has read.
C9_ConcurrentCache == []C9_State /\ [][C9_Step]_vars

\* Two reads of one plane have been issued, both calls have returned, and
\* the cache holds a second plane too.
C9_Witness ==
  /\ \E k \in DOMAIN reads : reads[k] >= 2
  /\ \A w \in Workers : Done(w)
  /\ Cardinality(DOMAIN plane_cache) >= 2

\* C10: every get_plane call returns the pixel data of plane (z, c, t) of the
\* image its lazy array was built from.
C10_OwnImage ==
  \A w \in Workers :
    Done(w) => task[w].p.pix = Pixels(task[w].img, task[w].want[1],
                                      task[w].want[2], task[w].want[3])

-----------------------------------------------------------------------------
(* Properties of the assembled arrays and of the viewer dimensions. *)

\* The pixel data of element [t][z] of a layer's array once it is computed:
\* an eager array holds it, a lazy one reads the plane its name parses to.
Element(i, t, z) ==
  LET el == layers[i].data.items[t + 1].items[z + 1]
  IN IF layers[i].lazy
     THEN LET n == parse_plane_name(el.plane_name)
          IN Pixels(layers[i].img, n.z, n.c, n.t)
     ELSE el.pix

\* C3: every array assembled for a channel, eagerly or lazily, has the four
\* axes (sizeT, sizeZ, sizeY, sizeX), also when sizeT or sizeZ is 1; its
\* element [t][z] is plane (z, c, t); an eager and a lazy array of the same
\* channel have the same shape; for sizeZ=3, sizeT=2 the shape is (2, 3, Y, X).
C3_SameRankAndShape ==
  /\ \A i \in ImageLayers :
       LET im == image[layers[i].img]
       IN /\ layers[i].data.shape = <<im.sizeT, im.sizeZ, im.sizeY, im.sizeX>>
          /\ Len(layers[i].data.shape) = 4
          /\ (im.sizeZ = 3 /\ im.sizeT = 2) =>
               layers[i].data.shape = <<2, 3, im.sizeY, im.sizeX>>
          /\ \A t \in 0..(im.sizeT - 1), z \in 0..(im.sizeZ - 1) :
               Element(i, t, z) = Pixels(layers[i].img, z, layers[i].c, t)
  /\ \A i, j \in ImageLayers :
       (layers[i].img = layers[j].img /\ layers[i].c = layers[j].c) =>
         layers[i].data.shape = layers[j].data.shape

\* An eager and a lazy array of the same channel of an image with sizeT = 1
\* and several Z planes.
C3_Witness ==
  \E i, j \in ImageLayers :
    /\ layers[i].img = layers[j].img /\ layers[i].c = layers[j].c
    /\ ~layers[i].lazy /\ layers[j].lazy
    /\ image[layers[i].img].sizeT = 1 /\ image[layers[i].img].sizeZ > 1

LastLoaded == layers[Len(layers)].img

\* C4, as claimed: after load_omero_image the viewer has an axis label only
\* for the axes among T and Z whose extent exceeds 1, T before Z, from axis 0.
C4_LabelsOnlyForLongAxes ==
  layers # <<>> =>
    axis_labels = set_dims_labels_sized(<<>>, LastLoaded)

\* C4, amended: after load_omero_image axis 0 is labelled "T" and axis 1 is
\* labelled "Z" whatever the extents; only the slider positions depend on
\* them: axis 0 is set to the default T when sizeT > 1, axis 1 to the default
\* Z when sizeZ > 1, and no position is set for an axis of extent 1.
C4_LabelsAlwaysTZ ==
  layers # <<>> =>
    LET im == image[LastLoaded]
    IN /\ DOMAIN axis_labels = {0, 1}
       /\ axis_labels[0] = "T" /\ axis_labels[1] = "Z"
       /\ DOMAIN dims_point = { a \in {0} : im.sizeT > 1 } \cup { a \in {1} : im.sizeZ > 1 }
       /\ 0 \in DOMAIN dims_point => dims_point[0] = im.defaultT
       /\ 1 \in DOMAIN dims_point => dims_point[1] = im.defaultZ

\* An image with sizeT = 1 and sizeZ = 5 has been loaded.
C4_Witness ==
  /\ layers # <<>>
  /\ image[LastLoaded].sizeT = 1 /\ image[LastLoaded].sizeZ = 5
  /\ axis_labels[1] = "Z"

-----------------------------------------------------------------------------
(* The export of points and shapes: coordinates and the OMERO shapes. *)

\* A coordinate is a number of quarters: the model's v stands for v / Unit.
\* The coordinates drawn are halves, so that the sums and differences the
\* code divides by 2 stay exact.
Unit == 2 * 2

abs(v) == IF v < 0 THEN 0 - v ELSE v

\* int(v) of a float: truncation toward zero.
int(v) == IF v >= 0 THEN v \div Unit ELSE 0 - ((0 - v) \div Unit)

\* rint(v): the integer an RInt holds; rdouble(v): the double an RDouble holds.
rint(v) == int(v)
rdouble(v) == v

get_x(coordinate) == coordinate[Len(coordinate)]
get_y(coordinate) == coordinate[Len(coordinate) - 1]
get_t(coordinate) == coordinate[1]
get_z(coordinate) == coordinate[2]

create_omero_point(data) ==
  [type |-> "Point", x |-> rdouble(get_x(data)), y |-> rdouble(get_y(data)),
   theZ |-> rint(get_z(data)), theT |-> rint(get_t(data))]

None == [type |-> "None"]

\* The "x,y" items of a points string, which ", " joins.
points_of(data) == [i \in 1..Len(data) |-> <<get_x(data[i]), get_y(data[i])>>]

\* The rectangle branch with the rotation test left out.
create_rectangle_unrotated(data, z_index, t_index) ==
  [type |-> "Rectangle",
   x |-> rdouble(get_x(data[1])), y |-> rdouble(get_y(data[1])),
   width |-> rdouble(get_x(data[3]) - get_x(data[1])),
   height |-> rdouble(get_y(data[2]) - get_y(data[1])),
   theZ |-> rint(z_index), theT |-> rint(t_index)]

\* if shape_type == "rectangle": a Rectangle when x1 == x2, else a Polygon.
create_rectangle(data, z_index, t_index) ==
  LET x1 == get_x(data[1])
      x2 == get_x(data[2])
      x3 == get_x(data[3])
      y1 == get_y(data[1])
      y2 == get_y(data[2])
  IN IF x1 = x2
     THEN [type |-> "Rectangle", x |-> rdouble(x1), y |-> rdouble(y1),
           width |-> rdouble(x3 - x1), height |-> rdouble(y2 - y1),
           theZ |-> rint(z_index), theT |-> rint(t_index)]
     ELSE [type |-> "Polygon",
           points |-> points_of(<<data[1], data[2], data[3], data[4]>>),
           theZ |-> rint(z_index), theT |-> rint(t_index)]

\* The ellipse branch with x1 == x2 as its rotation test.
create_ellipse_exact(data, z_index, t_index) ==
  LET x1 == get_x(data[1])
      x2 == get_x(data[2])
      x3 == get_x(data[3])
      y1 == get_y(data[1])
      y2 == get_y(data[2])
  IN IF x1 = x2
     THEN [type |-> "Ellipse",
           x |-> rdouble((x1 + x3) \div 2), y |-> rdouble((y1 + y2) \div 2),
           radiusX |-> rdouble(abs(x3 - x1) \div 2),
           radiusY |-> rdouble(abs(y2 - y1) \div 2),
           theZ |-> rint(z_index), theT |-> rint(t_index)]
     ELSE None

\* elif shape_type == "ellipse": an Ellipse when int(x1) == int(x2), else
\* nothing.
create_ellipse(data, z_index, t_index) ==
  LET x1 == get_x(data[1])
      x2 == get_x(data[2])
      x3 == get_x(data[3])
      y1 == get_y(data[1])
      y2 == get_y(data[2])
  IN IF int(x1) = int(x2)
     THEN [type |-> "Ellipse",
           x |-> rdouble((x1 + x3) \div 2), y |-> rdouble((y1 + y2) \div 2),
           radiusX |-> rdouble(abs(x3 - x1) \div 2),
           radiusY |-> rdouble(abs(y2 - y1) \div 2),
           theZ |-> rint(z_index), theT |-> rint(t_index)]
     ELSE None

create_omero_shape(shape_type, data) ==
  LET z_index == get_z(data[1])
      t_index == get_t(data[1])
  IN CASE shape_type = "line" ->
            [type |-> "Line",
             x1 |-> rdouble(get_x(data[1])), y1 |-> rdouble(get_y(data[1])),
             x2 |-> rdouble(get_x(data[2])), y2 |-> rdouble(get_y(data[2])),
             theZ |-> rint(z_index), theT |-> rint(t_index)]
       [] shape_type = "path" \/ shape_type = "polygon" ->
            [type |-> IF shape_type = "path" THEN "Polyline" ELSE "Polygon",
             points |-> points_of(data),
             theZ |-> rint(z_index), theT |-> rint(t_index)]
       [] shape_type = "rectangle" -> create_rectangle(data, z_index, t_index)
       [] shape_type = "ellipse" -> create_ellipse(data, z_index, t_index)
       [] OTHER -> None

\* create_roi: a new ROI of the image holding the shapes given.
create_roi(img_id, shapes) == [image |-> img_id, shapes |-> shapes]

-----------------------------------------------------------------------------
(* save_rois: the loop over viewer.layers, one step per item or layer. *)

\* shape_types: layer.shape_type, a str repeated once per shape of the layer.
shape_types(layer) ==
  IF layer.shape_type.is_str
  THEN [t \in 1..Len(layer.data) |-> layer.shape_type.str]
  ELSE layer.shape_type.list

\* len(layer.data) == 0 or len(layer.shape_type) == 0
nothing_to_save(layer) ==
  \/ Len(layer.data) = 0
  \/ IF layer.shape_type.is_str THEN layer.shape_type.str = ""
     ELSE Len(layer.shape_type.list) = 0

\* The number of items the inner loop of a layer goes through.
num_items(layer) ==
  CASE layer.type = "points" -> Len(layer.data)
    [] layer.type = "shapes" ->
         IF nothing_to_save(layer) THEN 0
         ELSE IF Len(shape_types(layer)) < Len(layer.data)
              THEN Len(shape_types(layer)) ELSE Len(layer.data)
    [] OTHER -> 0

\* The shape built for item si of a layer.
item_shape(layer, si) ==
  IF layer.type = "points" THEN create_omero_point(layer.data[si])
  ELSE create_omero_shape(shape_types(layer)[si], layer.data[si])

Running == save.pc = "run" /\ save.li <= Len(layers)
AtItem == Running /\ save.si <= num_items(layers[save.li])

\* The "Save ROIs to OMERO" button: save_rois(viewer, img). One call of
\* save_rois is followed from its start to its return or its failure.
SaveStart(img) ==
  /\ save.pc = "idle"
  /\ save' = [pc |-> "run", img |-> img, li |-> 1, si |-> 1]
  /\ UNCHANGED <<image, layers, axis_labels, dims_point, plane_cache, task,
                 reads, rois, calls>>

\* create_roi raises and the loop goes on with the next item.
CreateFail_swallowed ==
  /\ AtItem
  /\ item_shape(layers[save.li], save.si) # None
  /\ calls' = Append(calls, <<save.li, save.si>>)
  /\ save' = [save EXCEPT !.si = save.si + 1]
  /\ UNCHANGED <<image, layers, axis_labels, dims_point, plane_cache, task,
                 reads, rois>>

\* create_roi raises: saveAndReturnObject fails, nothing catches the error.
CreateFail ==
  /\ AtItem
  /\ item_shape(layers[save.li], save.si) # None
  /\ calls' = Append(calls, <<save.li, save.si>>)
  /\ save' = [save EXCEPT !.pc = "failed"]
  /\ UNCHANGED <<image, layers, axis_labels, dims_point, plane_cache, task,
                 reads, rois>>

\* roi = create_roi(conn, image.id, [shape]): the server stores the new ROI.
CreateOk ==
  /\ AtItem
  /\ item_shape(layers[save.li], save.si) # None
  /\ calls' = Append(calls, <<save.li, save.si>>)
  /\ rois' = Append(rois, create_roi(save.img,
                                     <<item_shape(layers[save.li], save.si)>>))
  /\ save' = [save EXCEPT !.si = save.si + 1]
  /\ UNCHANGED <<image, layers, axis_labels, dims_point, plane_cache, task, reads>>

\* shape is None: no create call for the item.
SkipItem ==
  /\ AtItem
  /\ item_shape(layers[save.li], save.si) = None
  /\ save' = [save EXCEPT !.si = save.si + 1]
  /\ UNCHANGED <<image, layers, axis_labels, dims_point, plane_cache, task,
                 reads, rois, calls>>

\* The layer has no item left (or is not one save_rois exports).
NextLayer ==
  /\ Running
  /\ save.si > num_items(layers[save.li])
  /\ save' = [save EXCEPT !.li = save.li + 1, !.si = 1]
  /\ UNCHANGED <<image, layers, axis_labels, dims_point, plane_cache, task,
                 reads, rois, calls>>

\* The loop over the layers has ended: save_rois returns.
SaveReturn ==
  /\ save.pc = "run" /\ save.li > Len(layers)
  /\ save' = [save EXCEPT !.pc = "done"]
  /\ UNCHANGED <<image, layers, axis_labels, dims_point, plane_cache, task,
                 reads, rois, calls>>

SaveNext ==
  \/ \E img \in DOMAIN image : SaveStart(img)
  \/ CreateOk
  \/ CreateFail
  \/ SkipItem
  \/ NextLayer
  \/ SaveReturn

-----------------------------------------------------------------------------
(* The viewers save_rois is run on. *)

\* Largest half-coordinate of a corner or a point: coordinates go from -1/2
\* to MaxCoord / 2 in steps of 1/2.
MaxCoord == 2
\* Most annotation layers of the viewer, and most items of a layer.
MaxLayers == 2
MaxItems == 2

Coords == { 2 * n : n \in (0 - 1)..MaxCoord }
\* The (t, z) planes an annotation is drawn on.
Planes == { <<0, Unit>>, <<Unit, 0>> }

SeqsUpTo(S, n) == UNION { [1..k -> S] : k \in 0..n }


PointsLayer(data) == [type |-> "points", data |-> data]
ShapesLayer(types, data) ==
  [type |-> "shapes", shape_type |-> [is_str |-> FALSE, list |-> types],
   data |-> data]
ShapesLayerStr(type, data) ==
  [type |-> "shapes", shape_type |-> [is_str |-> TRUE, str |-> type],
   data |-> data]
LabelsLayer == [type |-> "labels"]

\* Points of 2, 3 and 4 dimensions.
PointArgs ==
  { <<y, x>> : y \in Coords, x \in Coords }
  \cup { <<p[2], y, x>> : p \in Planes, y \in Coords, x \in Coords }
  \cup { p \o <<y, x>> : p \in Planes, y \in Coords, x \in Coords }

\* Four corners on one plane: the first three anywhere, the fourth closing
\* the parallelogram.
CornerArgs ==
  { [i \in 1..4 |->
       p \o (CASE i = 1 -> <<q[4], q[1]>>
               [] i = 2 -> <<q[5], q[2]>>
               [] i = 3 -> <<q[6], q[3]>>
               [] i = 4 -> <<q[4] + q[6] - q[5], q[1] + q[3] - q[2]>>)] :
       p \in Planes, q \in Coords \X Coords \X Coords \X Coords \X Coords \X Coords }

FixedLine == << <<0, Unit, 0, 0>>, <<0, Unit, 2, 2>> >>

\* One annotation layer: a point, or a rectangle or an ellipse followed by a
\* line.
InitShape ==
  /\ image \in [{101} -> ImageChoices(1, 1, 1)]
  /\ layers \in
       { <<load_omero_channel(101, 0, get_data_lazy(101, 0), TRUE), l>> :
           l \in { PointsLayer(<<p>>) : p \in PointArgs }
                 \cup { ShapesLayer(<<ty, "line">>, <<d, FixedLine>>) :
                          ty \in {"rectangle", "ellipse"}, d \in CornerArgs } }
  /\ axis_labels = <<>> /\ dims_point = <<>> /\ plane_cache = <<>>
  /\ task = [w \in Workers |-> Idle] /\ reads = <<>>
  /\ save = [pc |-> "idle"] /\ rois = <<>> /\ calls = <<>>

SpecShape == InitShape /\ [][SaveNext]_vars

\* The shapes a layer of the save specification is made of.
FixedPoint == <<Unit, 0, 2, 4>>
FixedRectangle ==
  << <<0, Unit, 0, 0>>, <<0, Unit, 4, 0>>, <<0, Unit, 4, 8>>, <<0, Unit, 0, 8>> >>
RotatedEllipse ==
  << <<0, Unit, 0, 4>>, <<0, Unit, 4, 8>>, <<0, Unit, 8, 4>>, <<0, Unit, 4, 0>> >>
ShapeChoices ==
  { [type |-> "rectangle", data |-> FixedRectangle],
    [type |-> "ellipse", data |-> RotatedEllipse] }

LayerChoices ==
  { PointsLayer(d) : d \in SeqsUpTo({FixedPoint}, MaxItems) }
  \cup { ShapesLayer([i \in 1..Len(d) |-> d[i].type],
                     [i \in 1..Len(d) |-> d[i].data]) :
           d \in SeqsUpTo(ShapeChoices, MaxItems) }
  \cup { ShapesLayerStr("path", d) : d \in SeqsUpTo({FixedLine}, MaxItems) \ {<<>>} }
  \cup { LabelsLayer }

\* The image layer of the viewed image, then up to MaxLayers annotation
\* layers of up to MaxItems items each.
InitSave ==
  /\ image \in [{101} -> ImageChoices(1, 1, 1)]
  /\ layers \in
       { <<load_omero_channel(101, 0, get_data_lazy(101, 0), TRUE)>> \o a :
           a \in SeqsUpTo(LayerChoices, MaxLayers) }
  /\ axis_labels = <<>> /\ dims_point = <<>> /\ plane_cache = <<>>
  /\ task = [w \in Workers |-> Idle] /\ reads = <<>>
  /\ save = [pc |-> "idle"] /\ rois = <<>> /\ calls = <<>>

SpecSave == InitSave /\ [][SaveNext]_vars

-----------------------------------------------------------------------------
(* Properties of the export. *)

\* The items of the layers, and the corners of an item.
Items ==
  { it \in (1..Len(layers)) \X (1..MaxItems) :
      layers[it[1]].type \in {"points", "shapes"}
      /\ it[2] <= Len(layers[it[1]].data) }
ItemsOfType(ty) ==
  { it \in Items : /\ layers[it[1]].type = "shapes"
                   /\ shape_types(layers[it[1]])[it[2]] = ty }
Corner(it, i) == layers[it[1]].data[it[2]][i]
X(it, i) == Corner(it, i)[Len(Corner(it, i))]
Y(it, i) == Corner(it, i)[Len(Corner(it, i)) - 1]

\* save_rois has gone past the item.
Passed(it) ==
  /\ save.pc \in {"run", "done", "failed"}
  /\ save.li > it[1] \/ (save.li = it[1] /\ save.si > it[2])

Called(it) == \E k \in 1..Len(calls) : calls[k] = it
\* The shapes of the ROIs created for the item.
Created(it) == { rois[k].shapes : k \in { j \in 1..Len(rois) : calls[j] = it } }

\* C5: the Point exported for a point has x = its last coordinate, y = its
\* second-to-last, theZ = the coordinate just before y and theT = the first
\* coordinate, each 0 when the point has no such axis.
C5_PointExport ==
  \A it \in Items :
    layers[it[1]].type = "points" =>
      \A shapes \in Created(it) :
        LET p == layers[it[1]].data[it[2]]
            n == Len(p)
        IN /\ Len(shapes) = 1 /\ shapes[1].type = "Point"
           /\ shapes[1].x = p[n] /\ shapes[1].y = p[n - 1]
           /\ shapes[1].theZ = (IF n >= 3 THEN int(p[n - 2]) ELSE 0)
           /\ shapes[1].theT = (IF n >= 4 THEN int(p[1]) ELSE 0)

\* C6: a rectangle is never skipped; the shape exported for it is the
\* Rectangle x=x1, y=y1, width=x3-x1, height=y2-y1 when x1 = x2, and
\* otherwise the Polygon through its 4 corners in order.
C6_RectangleExport ==
  \A it \in ItemsOfType("rectangle") :
    /\ create_omero_shape("rectangle", layers[it[1]].data[it[2]]) # None
    /\ Passed(it) => Called(it)
    /\ \A shapes \in Created(it) :
         /\ Len(shapes) = 1
         /\ X(it, 1) = X(it, 2) =>
              /\ shapes[1].type = "Rectangle"
              /\ shapes[1].x = X(it, 1) /\ shapes[1].y = Y(it, 1)
              /\ shapes[1].width = X(it, 3) - X(it, 1)
              /\ shapes[1].height = Y(it, 2) - Y(it, 1)
         /\ X(it, 1) # X(it, 2) =>
              /\ shapes[1].type = "Polygon"
              /\ shapes[1].points = [i \in 1..4 |-> <<X(it, i), Y(it, i)>>]

\* A rotated rectangle has been exported as a Polygon.
C6_Witness ==
  \E it \in ItemsOfType("rectangle") :
    /\ X(it, 1) # X(it, 2)
    /\ \E shapes \in Created(it) : shapes[1].type = "Polygon"

\* C7: an ellipse with int(x1) = int(x2) is exported as the Ellipse of
\* center ((x1+x3)/2, (y1+y2)/2) and radii (|x3-x1|/2, |y2-y1|/2); for any
\* other ellipse create_omero_shape returns nothing, save_rois never issues a
\* create call for it, and it goes on: every item it has gone past that has a
\* shape has had its create call.
C7_EllipseExport ==
  /\ \A it \in ItemsOfType("ellipse") :
       IF int(X(it, 1)) = int(X(it, 2))
       THEN /\ Passed(it) => Called(it)
            /\ \A shapes \in Created(it) :
                 /\ Len(shapes) = 1 /\ shapes[1].type = "Ellipse"
                 /\ 2 * shapes[1].x = X(it, 1) + X(it, 3)
                 /\ 2 * shapes[1].y = Y(it, 1) + Y(it, 2)
                 /\ 2 * shapes[1].radiusX = abs(X(it, 3) - X(it, 1))
                 /\ 2 * shapes[1].radiusY = abs(Y(it, 2) - Y(it, 1))
       ELSE /\ create_omero_shape("ellipse", layers[it[1]].data[it[2]]) = None
            /\ ~Called(it)
  /\ \A it \in Items :
       (Passed(it) /\ item_shape(layers[it[1]], it[2]) # None) => Called(it)

\* save_rois has returned: it skipped a rotated ellipse and created the ROI
\* of the shape after it.
C7_Witness ==
  /\ save.pc = "done"
  /\ \E it \in ItemsOfType("ellipse") :
       /\ int(X(it, 1)) # int(X(it, 2))
       /\ ~Called(it)
       /\ Called(<<it[1], it[2] + 1>>)
       /\ Len(rois) = 1

\* The items that have a shape, in layer order and, within a layer, in item
\* order, from item si of layer li on.
RECURSIVE ItemsFrom(_, _)
ItemsFrom(li, si) ==
  IF li > Len(layers) THEN <<>>
  ELSE IF si > num_items(layers[li]) THEN ItemsFrom(li + 1, 1)
  ELSE (IF item_shape(layers[li], si) # None THEN << <<li, si>> >> ELSE <<>>)
       \o ItemsFrom(li, si + 1)

ExportList == ItemsFrom(1, 1)

\* The calls issued are the first items of ExportList, each but a failed one
\* with its own ROI of one shape.
C8_State ==
  /\ Len(calls) = Len(rois) + (IF save.pc = "failed" THEN 1 ELSE 0)
  /\ Len(calls) <= Len(ExportList)
  /\ calls = SubSeq(ExportList, 1, Len(calls))
  /\ \A k \in 1..Len(rois) :
       rois[k] = [image |-> save.img,
                  shapes |-> <<item_shape(layers[calls[k][1]], calls[k][2])>>]
  /\ save.pc = "done" => calls = ExportList

\* At most one call per step, no ROI removed or changed, nothing after a
\* failed call.
C8_Step ==
  /\ save.pc = "failed" => (calls' = calls /\ rois' = rois)
  /\ Len(calls') <= Len(calls) + 1
  /\ Len(rois') >= Len(rois)
  /\ SubSeq(rois', 1, Len(rois)) = rois

\* C8: the create calls are issued in layer order and, within a layer, in
\* item order, none left out; every call but a failed one has created one
\* ROI, which holds exactly the one shape of its item; a step issues at most
\* one call and never removes or changes a ROI; once a call has failed no
\* further call is issued and the ROIs created before it stay; a save that
\* returns has issued the call of every item.
C8_OrderedExportAborts == []C8_State /\ [][C8_Step]_vars

\* A create call has failed after ROIs of two layers were created, with
\* items still to export.
C8_Witness ==
  /\ save.pc = "failed"
  /\ Len(rois) >= 2
  /\ calls[1][1] # calls[Len(calls)][1]
  /\ Len(calls) < Len(ExportList)

====
